---- MODULE Spec2Model ----
(***************************************************************************)
(* A model of the 2048 micro-genetic repository: the Game engine           *)
(* (src/src/game/game.py), the play_game loop of Player                     *)
(* (src/src/players/base.py), the network player's choose_action            *)
(* (src/src/players/net.py) and the genetic Population with its driver      *)
(* (src/src/genetics/population.py, src/src/genetics/strategies.py).        *)
(*                                                                         *)
(* Tiles are stored as ranks (log2 of the face value), 0 is an empty cell. *)
(* A board is a tuple of 4 rows, each a tuple of 4 ranks.                  *)
(***************************************************************************)
EXTENDS Integers, Sequences, FiniteSets, TLC

VARIABLES
    board,          \* Game.board
    score,          \* Game.score
    highest_tile,   \* Game.highest_tile
    game_over,      \* Game.game_over
    rng,            \* state of the random generator behind np.random
    pc,             \* where the caller of the game stands
    picks,          \* moves chosen so far by the arbitrary legal player
    calls,          \* direct calls of Game.move made so far
    scores,         \* Player.scores
    highest_tiles,  \* Player.highest_tiles
    last,           \* the last operation, its arguments and what it returned
    pop,            \* the current Population object (NoPop before the first)
    created,        \* the number of NetworkPlayer objects constructed so far
    driver,         \* how the call of run_micro_genetic_alg ended, "idle" before it
    top_scores,     \* the top_scores list that run_micro_genetic_alg returned
    train           \* the local variables of train_population (NoTrain outside it)

vars == <<board, score, highest_tile, game_over, rng, pc, picks, calls,
          scores, highest_tiles, last, pop, created, driver, top_scores,
          train>>

\* The variables of the game and its player, and those of the population.
gvars == <<board, score, highest_tile, game_over, picks, calls, scores,
           highest_tiles>>

pvars == <<pop, created, driver, top_scores, train>>

-----------------------------------------------------------------------------
(* Program constants.                                                      *)

\* The side of the board: np.zeros((4, 4)), range(4).
N == 4

\* action.py: the Action members that are directions, and DIRECTIONS.
LEFT == "LEFT"
RIGHT == "RIGHT"
UP == "UP"
DOWN == "DOWN"
QUIT == "QUIT"
\* Python's None, the value choose_action starts best_move with.
None == "None"

DIRECTIONS == <<LEFT, RIGHT, UP, DOWN>>

-----------------------------------------------------------------------------
(* Bounds of the exploration.                                              *)

\* Seeds of the random generator that Init draws from: 1..MaxSeed.
MaxSeed == 4
\* The first MaxPicks moves of play_game are any legal direction (an
\* arbitrary player); the later ones are the network player's.
MaxPicks == 1
\* Direct calls of Game.move with any direction, legal or not, made on the
\* game as play_game left it (at most MaxCalls of them).
MaxCalls == 2
\* Ranks of the rows the row specification draws from: 0..MaxRank.
MaxRank == 3
\* Network outputs are drawn from 0..MaxOut.
MaxOut == 1

-----------------------------------------------------------------------------
(* np.random.  The generator is seedable and deterministic once seeded; it *)
(* is modelled as a Lehmer generator of modulus RngMod whose state r       *)
(* stands for the sample r / RngMod of [0, 1).  Init draws the seed.       *)
(* The modulus is large enough for a sample to fall below 0.01.            *)

RngMod == 101
RngMul == 2

NextRng(r) == (r * RngMul) % RngMod

\* np.random.random() > 0.9 on the sample r / RngMod.
RandomAbove09(r) == 10 * r > 9 * RngMod

\* np.random.choice(seq) on the sample r / RngMod: a uniform index.
RandomIndex(r, len) == ((r * len) \div RngMod) + 1

-----------------------------------------------------------------------------
(* numpy helpers.                                                          *)

\* With(v, F) is F(v), with v evaluated once and then bound: the model's
\* form of a local variable holding the value of an expression.
With(v, F(_)) == CHOOSE res \in {F(x) : x \in {v}} : TRUE

Tup4(f(_)) == <<f(1), f(2), f(3), f(4)>>

\* board.reshape(16): the cells in row-major order, positions 0..15.
Cell(b, p) == b[(p \div N) + 1][(p % N) + 1]

Positions == <<0, 1, 2, 3, 4, 5, 6, 7, 8, 9, 10, 11, 12, 13, 14, 15>>

\* board with cell p set to v: board[pos] = val; board.reshape((4, 4)).
SetCell(b, p, v) == [b EXCEPT ![(p \div N) + 1][(p % N) + 1] = v]

\* np.max(board)
Max2(x, y) == IF x >= y THEN x ELSE y

MaxOfRow(row) == Max2(Max2(row[1], row[2]), Max2(row[3], row[4]))

MaxRankOf(b) == Max2(Max2(MaxOfRow(b[1]), MaxOfRow(b[2])),
                     Max2(MaxOfRow(b[3]), MaxOfRow(b[4])))

\* board.all(): no cell is zero.
AllNonZero(b) == \A p \in 0..(N * N - 1) : Cell(b, p) # 0

\* np.rot90(m): one quarter turn counterclockwise, result[i][j] = m[j][n-1-i].
Rot90Once(b) ==
    LET row(i) == LET c(j) == b[j][N + 1 - i] IN Tup4(c)
    IN  Tup4(row)

\* np.rot90(m, k) for any integer k.
rot90(b, k) ==
    IF k % 4 = 0 THEN b
    ELSE IF k % 4 = 1 THEN Rot90Once(b)
    ELSE IF k % 4 = 2 THEN With(Rot90Once(b), LAMBDA b1 : Rot90Once(b1))
    ELSE With(Rot90Once(b), LAMBDA b1 :
         With(Rot90Once(b1), LAMBDA b2 : Rot90Once(b2)))

-----------------------------------------------------------------------------
(* Game (src/src/game/game.py).  An operator takes the object as the       *)
(* record self = [board, score, highest_tile, game_over] and returns the   *)
(* object after the call, with what the call returned.                     *)

\* slide_left, one pass of its loop body: the row without its zeros,
\* padded with zeros on the right.
SlideRow(row) ==
    With(SelectSeq(row, LAMBDA x : x # 0) \o <<0, 0, 0, 0>>,
         LAMBDA new_row : <<new_row[1], new_row[2], new_row[3], new_row[4]>>)

slide_left(self) ==
    LET r(i) == SlideRow(self.board[i])
    IN  [self EXCEPT !.board = Tup4(r)]

\* MergeAt without board[i, j+1] = 0: the right tile of a merged pair stays.
MergeAtKeepRight(acc, j) ==
    IF acc.row[j] = acc.row[j + 1] /\ acc.row[j + 1] # 0
    THEN [row |-> [acc.row EXCEPT ![j] = acc.row[j] + 1],
          score |-> acc.score + 2 ^ (acc.row[j] + 1)]
    ELSE acc

\* MergeAt that raises the left tile of a merged pair by two ranks.
MergeAtTwoRanks(acc, j) ==
    IF acc.row[j] = acc.row[j + 1] /\ acc.row[j + 1] # 0
    THEN [row |-> [acc.row EXCEPT ![j] = acc.row[j] + 2, ![j + 1] = 0],
          score |-> acc.score + 2 ^ (acc.row[j] + 2)]
    ELSE acc

\* merge_left, the body of the inner loop for one row at column j (1-based):
\* acc is [row, score].
MergeAt(acc, j) ==
    IF acc.row[j] = acc.row[j + 1] /\ acc.row[j + 1] # 0
    THEN [row |-> [acc.row EXCEPT ![j] = acc.row[j] + 1, ![j + 1] = 0],
          score |-> acc.score + 2 ^ (acc.row[j] + 1)]
    ELSE acc

\* MergeRowFrom that packs the row again after a merge and looks at the same
\* column once more: a merged tile can merge a second time.
RECURSIVE MergeRowFromCascade(_, _)
MergeRowFromCascade(acc, j) ==
    IF j > N - 1 THEN acc
    ELSE With(MergeAt(acc, j), LAMBDA merged :
              IF merged # acc
              THEN MergeRowFromCascade([row |-> SlideRow(merged.row),
                                        score |-> merged.score], j)
              ELSE MergeRowFromCascade(merged, j + 1))

\* merge_left, the inner loop over j for one row, from column j on.
RECURSIVE MergeRowFrom(_, _)
MergeRowFrom(acc, j) ==
    IF j > N - 1 THEN acc
    ELSE With(MergeAt(acc, j), LAMBDA merged : MergeRowFrom(merged, j + 1))

\* merge_left, the outer loop over the rows from row i on.
RECURSIVE MergeRowsFrom(_, _)
MergeRowsFrom(self, i) ==
    IF i > N THEN self
    ELSE With(MergeRowFrom([row |-> self.board[i], score |-> self.score], 1),
              LAMBDA m :
         With([self EXCEPT !.board[i] = m.row, !.score = m.score],
              LAMBDA s : MergeRowsFrom(s, i + 1)))

merge_left(self) == MergeRowsFrom(self, 1)

\* RotOf with the rotations of UP and of the else branch exchanged.
RotOfUpDown(direction) ==
    IF direction = LEFT THEN 0
    ELSE IF direction = UP THEN -1
    ELSE IF direction = RIGHT THEN 2
    ELSE 1

\* The rotation count move() derives from the direction; anything that is
\* not LEFT, UP or RIGHT takes the else branch.
RotOf(direction) ==
    IF direction = LEFT THEN 0
    ELSE IF direction = UP THEN 1
    ELSE IF direction = RIGHT THEN 2
    ELSE -1

RECURSIVE move(_, _, _, _)
RECURSIVE get_legal_moves(_)

\* ProbeOne that resets the board after a legal move but not the score.
ProbeOneKeepScore(st, direction, m, orig_board, orig_score) ==
    IF m.ret
    THEN [self |-> [m.self EXCEPT !.board = orig_board],
          legal_moves |-> Append(st.legal_moves, direction)]
    ELSE [self |-> m.self, legal_moves |-> st.legal_moves]

\* get_legal_moves, the body of its loop for one direction, m being what
\* self.move(direction, add_tile=False) returned: after a legal move the
\* board and the score are reset to the copies and the direction is kept.
ProbeOne(st, direction, m, orig_board, orig_score) ==
    IF m.ret
    THEN [self |-> [m.self EXCEPT !.board = orig_board, !.score = orig_score],
          legal_moves |-> Append(st.legal_moves, direction)]
    ELSE [self |-> m.self, legal_moves |-> st.legal_moves]

\* get_legal_moves, the loop over DIRECTIONS from index k on.
\* st is [self, legal_moves]; orig_board and orig_score are the copies taken
\* before the loop.
RECURSIVE ProbeFrom(_, _, _, _)
ProbeFrom(st, k, orig_board, orig_score) ==
    IF k > Len(DIRECTIONS) THEN st
    ELSE With(move(st.self, DIRECTIONS[k], FALSE, 0), LAMBDA m :
         With(ProbeOne(st, DIRECTIONS[k], m, orig_board, orig_score), LAMBDA st1 :
              ProbeFrom(st1, k + 1, orig_board, orig_score)))

\* Returns [self, ret]: the object after the probe and the list of legal
\* directions.
get_legal_moves(self) ==
    IF self.game_over THEN [self |-> self, ret |-> <<>>]
    ELSE With(ProbeFrom([self |-> self, legal_moves |-> <<>>], 1,
                        self.board, self.score),
              LAMBDA st : [self |-> st.self, ret |-> st.legal_moves])

\* valid_pos = [i for i in range(16) if not board[i]]
ValidPos(b) == SelectSeq(Positions, LAMBDA p : Cell(b, p) = 0)

\* SetGameOver that ends the game on every full board, whatever the probe
\* returned.
SetGameOverOnFull(probe, r2) ==
    [self |-> [probe.self EXCEPT !.game_over = TRUE], rng |-> r2, err |-> FALSE]

\* SetGameOver that never ends the game.
SetGameOverNever(probe, r2) ==
    [self |-> probe.self, rng |-> r2, err |-> FALSE]

\* add_tile, its last statement, probe being what get_legal_moves returned:
\* if not self.get_legal_moves(): self.game_over = True
SetGameOver(probe, r2) ==
    IF probe.ret = <<>>
    THEN [self |-> [probe.self EXCEPT !.game_over = TRUE], rng |-> r2, err |-> FALSE]
    ELSE [self |-> probe.self, rng |-> r2, err |-> FALSE]

\* add_tile, from the assignment of highest_tile on; placed is the board
\* with the new tile.  get_legal_moves is called only on a full board.
AfterPlace(self, placed, r2) ==
    With([self EXCEPT !.board = placed, !.highest_tile = 2 ^ MaxRankOf(placed)],
         LAMBDA s1 :
         IF AllNonZero(placed)
         THEN With(get_legal_moves(s1), LAMBDA probe : SetGameOver(probe, r2))
         ELSE [self |-> s1, rng |-> r2, err |-> FALSE])

\* PlaceTile that draws the position from all 16 cells, empty or not.
PlaceTileAnywhere(self, val, valid_pos, r1) ==
    With(SetCell(self.board, Positions[RandomIndex(r1, Len(Positions))], val),
         LAMBDA placed : AfterPlace(self, placed, NextRng(r1)))

\* add_tile, from the choice of the position on; r1 is the generator after
\* the draw of val.  np.random.choice raises on an empty valid_pos.
PlaceTile(self, val, valid_pos, r1) ==
    IF valid_pos = <<>> THEN [self |-> self, rng |-> r1, err |-> TRUE]
    ELSE With(SetCell(self.board, valid_pos[RandomIndex(r1, Len(valid_pos))], val),
              LAMBDA placed : AfterPlace(self, placed, NextRng(r1)))

\* add_tile with the generator in state r.  Returns [self, rng, err]; err is
\* TRUE when add_tile raised.
add_tile(self, r) ==
    With(ValidPos(self.board), LAMBDA valid_pos :
         PlaceTile(self, IF RandomAbove09(r) THEN 2 ELSE 1, valid_pos, NextRng(r)))

\* AfterSlide that spawns a tile whether or not the board changed.
AfterSlideAlwaysSpawn(prev_board, back, with_tile, r) ==
    IF with_tile
    THEN With(add_tile(back, r), LAMBDA a :
              [self |-> a.self, ret |-> back.board # prev_board,
               rng |-> a.rng, err |-> a.err])
    ELSE [self |-> back, ret |-> back.board # prev_board, rng |-> r, err |-> FALSE]

\* move, from the comparison with prev_board on; back is the object after
\* the slide, merge, slide and the rotation back.
AfterSlide(prev_board, back, with_tile, r) ==
    IF back.board # prev_board /\ with_tile
    THEN With(add_tile(back, r), LAMBDA a :
              [self |-> a.self, ret |-> TRUE, rng |-> a.rng, err |-> a.err])
    ELSE [self |-> back, ret |-> back.board # prev_board, rng |-> r, err |-> FALSE]

\* move, the rotation, the slide, merge, slide and the rotation back.
SlideMerge(self, rot) ==
    With(rot90(self.board, rot), LAMBDA turned :
    With(slide_left([self EXCEPT !.board = turned]), LAMBDA s1 :
    With(merge_left(s1), LAMBDA s2 :
    With(slide_left(s2), LAMBDA s3 :
    With(rot90(s3.board, -1 * rot), LAMBDA back :
         [s3 EXCEPT !.board = back])))))

\* move(direction, add_tile).  Returns [self, ret, rng, err].
move(self, direction, with_tile, r) ==
    IF self.game_over THEN [self |-> self, ret |-> FALSE, rng |-> r, err |-> FALSE]
    ELSE With(SlideMerge(self, RotOf(direction)), LAMBDA back :
              AfterSlide(self.board, back, with_tile, r))

\* Game.__init__, its last three statements, a being what the second
\* add_tile returned.
InitFields(a) ==
    [self |-> [a.self EXCEPT !.score = 0, !.highest_tile = 0, !.game_over = FALSE],
     rng |-> a.rng]

\* Game(): the empty board, two tiles, then score, highest_tile and
\* game_over are set.
NewGame(seed) ==
    With(add_tile([board |-> <<<<0, 0, 0, 0>>, <<0, 0, 0, 0>>,
                               <<0, 0, 0, 0>>, <<0, 0, 0, 0>>>>,
                   score |-> 0, highest_tile |-> 0, game_over |-> FALSE],
                  seed), LAMBDA a1 :
    With(add_tile(a1.self, a1.rng), LAMBDA a2 : InitFields(a2)))

\* No Population object yet: Python's None where a Population is expected.
\* A Population has generation >= 1.
NoPop == [generation |-> 0, num_nets |-> 0, num_elite |-> 0,
          networks |-> <<>>, elites |-> <<>>]

\* train_population has not been called.
NoTrain == [gen |-> 0, final_gen |-> 0, elite |-> <<>>, parents |-> <<>>,
            top_tiles |-> <<>>, genepool |-> <<>>]

\* No population has been built and neither run_micro_genetic_alg nor
\* train_population has been called.
NoPopulation ==
    /\ pop = NoPop
    /\ created = 0
    /\ driver = "idle"
    /\ top_scores = <<>>
    /\ train = NoTrain

-----------------------------------------------------------------------------
(* The state machine of one Game object and its callers.                   *)

Self == [board |-> board, score |-> score, highest_tile |-> highest_tile,
         game_over |-> game_over]

SetSelf(s) ==
    /\ board' = s.board
    /\ score' = s.score
    /\ highest_tile' = s.highest_tile
    /\ game_over' = s.game_over

\* last: the operation (op), the direction passed or chosen (dir), the
\* boolean returned (ret), the list returned (legal), the network outputs
\* used (outs) and the object as it was before the call (before).
Last(op, dir, ret, legal, outs) ==
    [op |-> op, dir |-> dir, ret |-> ret, legal |-> legal, outs |-> outs,
     before |-> Self]

Init ==
    \E seed \in 1..MaxSeed :
        \E g \in {NewGame(seed)} :
            /\ board = g.self.board
            /\ score = g.self.score
            /\ highest_tile = g.self.highest_tile
            /\ game_over = g.self.game_over
            /\ rng = g.rng
            /\ pc = "loop"
            /\ picks = 0
            /\ calls = 0
            /\ scores = <<>>
            /\ highest_tiles = <<>>
            /\ last = [op |-> "new", dir |-> None, ret |-> FALSE, legal |-> <<>>,
                        outs |-> <<>>, before |-> g.self]
            /\ NoPopulation

\* game.move(action) with the tile spawn, as play_game and any other caller
\* run it.
DoMove(direction) ==
    \E m \in {move(Self, direction, TRUE, rng)} :
        /\ SetSelf(m.self)
        /\ rng' = m.rng
        /\ last' = Last("move", direction, m.ret, <<>>, <<>>)

\* A direct call of game.move(direction), any direction, in any state of
\* the game (also when it is over).
MoveCall ==
    /\ pc \in {"loop", "net", "calls"}
    /\ calls < MaxCalls
    /\ \E direction \in {LEFT, RIGHT, UP, DOWN} : DoMove(direction)
    /\ pc' = "calls"
    /\ calls' = calls + 1
    /\ UNCHANGED <<picks, scores, highest_tiles>>
    /\ UNCHANGED pvars

\* A call of game.get_legal_moves() by any caller.
Probe ==
    /\ pc \in {"loop", "net", "calls"}
    /\ \E p \in {get_legal_moves(Self)} :
           /\ SetSelf(p.self)
           /\ last' = Last("probe", None, FALSE, p.ret, <<>>)
    /\ UNCHANGED <<rng, pc, picks, calls, scores, highest_tiles>>
    /\ UNCHANGED pvars

-----------------------------------------------------------------------------
(* The network player (src/src/players/net.py) and play_game               *)
(* (src/src/players/base.py).                                              *)

\* -np.inf: below every output of the network.
NegInf == -1

\* What make_move can return: a list of four outputs, one per direction.
Outs == [1..4 -> 0..MaxOut]

\* choose_action, the loop over zip(DIRECTIONS, make_move(board)) from
\* index k on; st is [best_move, highest_priority].
RECURSIVE ChooseFrom(_, _, _, _)
ChooseFrom(st, k, legal_moves, outs) ==
    IF k > Len(DIRECTIONS) THEN st
    ELSE With(IF (\E i \in 1..Len(legal_moves) : legal_moves[i] = DIRECTIONS[k])
                 /\ outs[k] > st.highest_priority
              THEN [best_move |-> DIRECTIONS[k],
                    highest_priority |-> st.highest_priority]
              ELSE st,
              LAMBDA st1 : ChooseFrom(st1, k + 1, legal_moves, outs))

\* choose_action, after legal_moves = game.get_legal_moves(): the loop and
\* the return of best_move.
BestMove(legal_moves, outs) ==
    ChooseFrom([best_move |-> None, highest_priority |-> NegInf],
               1, legal_moves, outs).best_move

\* choose_action(game) when make_move(game.board) returns outs.  Returns
\* [self, ret]: the game after the call and the chosen move.
choose_action(self, outs) ==
    With(get_legal_moves(self), LAMBDA lm :
         [self |-> lm.self, ret |-> BestMove(lm.ret, outs)])

\* One pass of play_game's while loop with the network player:
\* action = choose_action(game); game.move(action).  The outputs of the
\* network are any of Outs.
NetStep ==
    /\ pc \in {"loop", "net"}
    /\ ~game_over
    /\ \E lm \in {get_legal_moves(Self)} :
       \E action \in {BestMove(lm.ret, outs) : outs \in Outs} :
       \E m \in {move(lm.self, action, TRUE, rng)} :
          /\ SetSelf(m.self)
          /\ rng' = m.rng
          /\ last' = Last("move", action, m.ret, <<>>, <<>>)
    /\ pc' = "net"
    /\ UNCHANGED <<picks, calls, scores, highest_tiles>>
    /\ UNCHANGED pvars

\* One pass of play_game's while loop with a player that returns any legal
\* direction (the first MaxPicks moves of a game).
PickStep ==
    /\ pc = "loop"
    /\ ~game_over
    /\ picks < MaxPicks
    /\ \E lm \in {get_legal_moves(Self)} :
           \E k \in 1..Len(lm.ret) :
              \E m \in {move(lm.self, lm.ret[k], TRUE, rng)} :
                  /\ SetSelf(m.self)
                  /\ rng' = m.rng
                  /\ last' = Last("move", lm.ret[k], m.ret, <<>>, <<>>)
    /\ picks' = picks + 1
    /\ UNCHANGED <<pc, calls, scores, highest_tiles>>
    /\ UNCHANGED pvars

\* The end of play_game: the loop condition fails, the result is recorded.
Finish ==
    /\ pc \in {"loop", "net"}
    /\ game_over
    /\ scores' = Append(scores, score)
    /\ highest_tiles' = Append(highest_tiles, highest_tile)
    /\ pc' = "done"
    /\ last' = Last("finish", None, FALSE, <<>>, <<>>)
    /\ UNCHANGED <<board, score, highest_tile, game_over, rng, picks, calls>>
    /\ UNCHANGED pvars

\* A call of choose_action on the current game by itself, with the outputs
\* drawn from Outs; what it returned is kept in last.
ChooseAction ==
    /\ pc \in {"loop", "net"}
    /\ ~game_over
    /\ \E outs \in Outs :
          \E c \in {choose_action(Self, outs)} :
              /\ SetSelf(c.self)
              /\ last' = Last("choose", c.ret, FALSE, <<>>, outs)
    /\ pc' = "chosen"
    /\ UNCHANGED <<rng, picks, calls, scores, highest_tiles>>
    /\ UNCHANGED pvars

\* A game played by the network player, then called directly.
Next == NetStep \/ MoveCall \/ Probe

Spec == Init /\ [][Next]_vars

\* play_game alone, run to its end.
NextPlay == PickStep \/ NetStep \/ Finish

SpecPlay == Init /\ [][NextPlay]_vars /\ WF_vars(NetStep) /\ WF_vars(Finish)

\* The network player's choice in the states of its games.
NextChoose == NetStep \/ ChooseAction

SpecChoose == Init /\ [][NextChoose]_vars

\* np.random is never seeded by the program, so the samples a game draws are
\* not tied to those of the moves before.  The sample add_tile draws first
\* is the lowest or the highest of the generator: 1 gives a 2-tile on the
\* first empty cell, RngMod - 1 a 4-tile on the last empty cell.
Samples == {1, RngMod - 1}

\* play_game is followed while the score of its game is at most MaxScore.
MaxScore == 0

\* One pass of play_game's while loop with a player that returns any legal
\* direction, the game drawing any of Samples.
FreeStep ==
    /\ pc = "loop"
    /\ ~game_over
    /\ score <= MaxScore
    /\ \E r \in Samples :
       \E lm \in {get_legal_moves(Self)} :
       \E k \in 1..Len(lm.ret) :
       \E m \in {move(lm.self, lm.ret[k], TRUE, r)} :
          /\ SetSelf(m.self)
          /\ rng' = m.rng
          /\ last' = Last("move", lm.ret[k], m.ret, <<>>, <<>>)
    /\ UNCHANGED <<pc, picks, calls, scores, highest_tiles>>
    /\ UNCHANGED pvars

\* play_game with any player and any samples, run to its end.
NextFree == FreeStep \/ Finish

SpecFree == Init /\ [][NextFree]_vars

-----------------------------------------------------------------------------
(* The row specification: slide_left, merge_left, slide_left on one row.   *)
(* Init draws a row of ranks and the row of the board it lies in; the      *)
(* action applies move(LEFT, add_tile=False).                              *)

ZeroRow == <<0, 0, 0, 0>>

RowBoard(row, i) == [k \in 1..N |-> IF k = i THEN row ELSE ZeroRow]

InitRow ==
    \E a \in 0..MaxRank, b \in 0..MaxRank, c \in 0..MaxRank, d \in 0..MaxRank :
    \E i \in 1..N :
        /\ board = <<RowBoard(<<a, b, c, d>>, i)[1], RowBoard(<<a, b, c, d>>, i)[2],
                     RowBoard(<<a, b, c, d>>, i)[3], RowBoard(<<a, b, c, d>>, i)[4]>>
        /\ score = 0
        /\ highest_tile = 0
        /\ game_over = FALSE
        /\ rng = 1
        /\ pc = "row"
        /\ picks = 0
        /\ calls = 0
        /\ scores = <<>>
        /\ highest_tiles = <<>>
        /\ last = [op |-> "new", dir |-> None, ret |-> FALSE, legal |-> <<>>,
                   outs |-> <<>>,
                   before |-> [board |-> <<ZeroRow, ZeroRow, ZeroRow, ZeroRow>>,
                               score |-> 0, highest_tile |-> 0, game_over |-> FALSE]]
        /\ NoPopulation

MoveLeft ==
    /\ pc = "row"
    /\ \E m \in {move(Self, LEFT, FALSE, rng)} :
          /\ SetSelf(m.self)
          /\ last' = Last("left", LEFT, m.ret, <<>>, <<>>)
    /\ pc' = "rowdone"
    /\ UNCHANGED <<rng, picks, calls, scores, highest_tiles>>
    /\ UNCHANGED pvars

SpecRow == InitRow /\ [][MoveLeft]_vars

-----------------------------------------------------------------------------
(* Genome (src/src/genetics/genome.py): binary weights -1 / +1.  A weight  *)
(* array is a tuple of rows, a row a tuple of weights.                     *)

\* Bounds on the shapes: the rows of input_weights (16 in the code) and the
\* width of a hidden layer (HIDDEN_LAYER_SIZE, 256 in the code).
InputRows == 2
MaxWidth == 2

NUM_HIDDEN_LAYERS == 2
\* The columns of output_weights, one per direction.
NumOutputs == 4

\* RngMul ^ k modulo RngMod, by repeated squaring.
RECURSIVE PowMod(_)
PowMod(k) ==
    IF k = 0 THEN 1
    ELSE IF k % 2 = 0 THEN With(PowMod(k \div 2), LAMBDA h : (h * h) % RngMod)
    ELSE (RngMul * PowMod(k - 1)) % RngMod

\* The generator k draws after state r: NextRng applied k times.
RngAt(r, k) == (r * PowMod(k)) % RngMod

\* np.random.randint(0, 2) on the sample r / RngMod.
RandInt2(r) == (r * 2) \div RngMod

\* np.random.random() > 0.5 and np.random.random() < 0.01.
RandomAbove05(r) == 2 * r > RngMod

RandomBelow001(r) == 100 * r < RngMod

\* _generate_random_weights(shape) for a two-dimensional shape, the draws
\* taken in row-major order from state r on.
_generate_random_weights(rows, cols, r) ==
    [i \in 1..rows |->
        [j \in 1..cols |-> 2 * RandInt2(RngAt(r, (i - 1) * cols + (j - 1))) - 1]]

InputDraws == InputRows * MaxWidth

LayerDraws == MaxWidth * MaxWidth

HiddenDraws == (NUM_HIDDEN_LAYERS - 1) * LayerDraws

OutputDraws == MaxWidth * NumOutputs

\* Genome() without parents: three random arrays.
RandomGenome(r) ==
    [input_weights |-> _generate_random_weights(InputRows, MaxWidth, r),
     hidden_weights |->
        [l \in 1..(NUM_HIDDEN_LAYERS - 1) |->
            _generate_random_weights(MaxWidth, MaxWidth,
                                     RngAt(r, InputDraws + (l - 1) * LayerDraws))],
     output_weights |->
        _generate_random_weights(MaxWidth, NumOutputs,
                                 RngAt(r, InputDraws + HiddenDraws))]

RandomGenomeDraws == InputDraws + HiddenDraws + OutputDraws

\* CrossRows with the sign of a row taken from dad flipped.
CrossRowsFlipDad(mom_w, dad_w, r) ==
    [i \in 1..Len(mom_w) |->
        IF RandomAbove05(RngAt(r, i - 1)) THEN mom_w[i]
        ELSE [j \in 1..Len(dad_w[i]) |-> -dad_w[i][j]]]

\* [m if np.random.random() > 0.5 else d for m, d in zip(mom_w, dad_w)]:
\* zip runs over the first axis, so whole rows are taken from mom or dad.
CrossRows(mom_w, dad_w, r) ==
    [i \in 1..Len(mom_w) |->
        IF RandomAbove05(RngAt(r, i - 1)) THEN mom_w[i] ELSE dad_w[i]]

\* mutate(array) for a two-dimensional array: each weight is multiplied by -1
\* when its draw is below 0.01.  The product is a new array.
mutate(array, cols, r) ==
    [i \in 1..Len(array) |->
        [j \in 1..cols |->
            array[i][j] * (IF RandomBelow001(RngAt(r, (i - 1) * cols + (j - 1)))
                           THEN -1 ELSE 1)]]

\* The draws of the three crossovers: one per row.
CrossDraws == InputRows + (NUM_HIDDEN_LAYERS - 1) * MaxWidth + MaxWidth

\* The three arrays of _spawn_child_chromosome as they are before mutate is
\* applied (lines 32-41); np.array copies the chosen rows into a new array.
Crossover(mom, dad, r) ==
    [input_weights |-> CrossRows(mom.input_weights, dad.input_weights, r),
     hidden_weights |->
        [l \in 1..(NUM_HIDDEN_LAYERS - 1) |->
            CrossRows(mom.hidden_weights[l], dad.hidden_weights[l],
                      RngAt(r, InputRows + (l - 1) * MaxWidth))],
     output_weights |->
        CrossRows(mom.output_weights, dad.output_weights,
                  RngAt(r, InputRows + (NUM_HIDDEN_LAYERS - 1) * MaxWidth))]

\* The three mutate calls of line 47 on the arrays c, the draws from r on.
MutateAll(c, r) ==
    [input_weights |-> mutate(c.input_weights, MaxWidth, r),
     hidden_weights |->
        [l \in 1..(NUM_HIDDEN_LAYERS - 1) |->
            mutate(c.hidden_weights[l], MaxWidth,
                   RngAt(r, InputDraws + (l - 1) * LayerDraws))],
     output_weights |->
        mutate(c.output_weights, NumOutputs, RngAt(r, InputDraws + HiddenDraws))]

\* _spawn_child_chromosome(mom, dad): the three crossovers, then the three
\* mutations, in the order of their draws.
_spawn_child_chromosome(mom, dad, r) ==
    MutateAll(Crossover(mom, dad, r), RngAt(r, CrossDraws))

ChildGenomeDraws == CrossDraws + RandomGenomeDraws

-----------------------------------------------------------------------------
(* NetworkPlayer, the Player subclass that Population builds.  An agent is *)
(* the record [id, generation, genome, scores, highest_tiles]; id is the   *)
(* identity of the object.                                                 *)

\* NetworkPlayer(gen=gen, mom=parents[1], dad=parents[2]), or
\* NetworkPlayer(gen=gen) when parents is empty.
NetworkPlayer(gen, parents, r, id) ==
    [id |-> id,
     generation |-> gen,
     genome |-> IF parents = <<>> THEN RandomGenome(r)
                ELSE _spawn_child_chromosome(parents[1].genome, parents[2].genome, r),
     scores |-> <<>>,
     highest_tiles |-> <<>>]

\* What a finished game can leave in (game.score, game.highest_tile); the
\* generator picks the result of each game an agent plays.  A game in which
\* no move ever merged ends on a full board of 2s and 4s with the score 0.
GameOutcomes ==
    <<[score |-> 0, highest_tile |-> 4],
      [score |-> 16, highest_tile |-> 8], [score |-> 64, highest_tile |-> 16],
      [score |-> 256, highest_tile |-> 32], [score |-> 1024, highest_tile |-> 128]>>

\* play_game: one game, its score and highest tile appended.
play_game(agent, r) ==
    With(GameOutcomes[RandomIndex(r, Len(GameOutcomes))], LAMBDA g :
         [agent EXCEPT !.scores = Append(@, g.score),
                       !.highest_tiles = Append(@, g.highest_tile)])

\* play_multiple_games(num_games): num_games calls of play_game.
RECURSIVE play_multiple_games(_, _, _)
play_multiple_games(agent, num_games, r) ==
    IF num_games <= 0 THEN agent
    ELSE With(play_game(agent, r), LAMBDA a :
              play_multiple_games(a, num_games - 1, NextRng(r)))

\* np.log of a positive score, in base 2 (the positive scores of
\* GameOutcomes are powers of 2).
Log2(x) == CHOOSE k \in 0..10 : 2 ^ k = x

RECURSIVE SumLog(_)
SumLog(ss) == IF ss = <<>> THEN 0 ELSE Log2(Head(ss)) + SumLog(Tail(ss))

\* np.log(0) is -inf: a list with a 0 has the mean -inf and the average 0.
HasZero(ss) == \E i \in 1..Len(ss) : ss[i] = 0

\* a.get_avg_score() > b.get_avg_score(): the geometric mean
\* exp(mean(log(scores))) grows with the mean of the logarithms, and the
\* means are compared as fractions.  An agent without scores has the mean
\* nan, which is above nothing and below nothing.
AvgScoreAbove(a, b) ==
    /\ a.scores # <<>>
    /\ b.scores # <<>>
    /\ ~HasZero(a.scores)
    /\ \/ HasZero(b.scores)
       \/ SumLog(a.scores) * Len(b.scores) > SumLog(b.scores) * Len(a.scores)

\* get_avg_score() > thresh with the default thresh=0: the geometric mean is
\* 0 exactly when one of the scores is 0.
AvgScoreAboveThresh(a) == ~HasZero(a.scores)

-----------------------------------------------------------------------------
(* Population (src/src/genetics/population.py).  A population is the       *)
(* record [generation, num_nets, num_elite, networks, elites]; similarity  *)
(* is a float that no operation reads and is left out.                     *)

\* Python's seq[:k] for any integer k.
SliceTo(seq, k) ==
    IF k >= 0 THEN SubSeq(seq, 1, IF k < Len(seq) THEN k ELSE Len(seq))
    ELSE SubSeq(seq, 1, IF Len(seq) + k > 0 THEN Len(seq) + k ELSE 0)

\* list.sort(key=get_avg_score, reverse=True), one insertion: the sort is
\* stable, x goes behind every agent whose score is not below its own.
RECURSIVE InsertDesc(_, _, _)
InsertDesc(sorted, x, i) ==
    IF i > Len(sorted) THEN Append(sorted, x)
    ELSE IF AvgScoreAbove(x, sorted[i])
         THEN SubSeq(sorted, 1, i - 1) \o <<x>> \o SubSeq(sorted, i, Len(sorted))
         ELSE InsertDesc(sorted, x, i + 1)

RECURSIVE SortDesc(_, _, _)
SortDesc(seq, k, acc) ==
    IF k > Len(seq) THEN acc
    ELSE With(InsertDesc(acc, seq[k], 1), LAMBDA acc1 : SortDesc(seq, k + 1, acc1))

get_sorted_networks(self, include_elites) ==
    SortDesc(IF include_elites THEN self.networks \o self.elites ELSE self.networks,
             1, <<>>)

\* np.random.choice(parents, 2, replace=False): two different parents.
Choice2(parents, r) ==
    With(RandomIndex(r, Len(parents)), LAMBDA i1 :
    With(SubSeq(parents, 1, i1 - 1) \o SubSeq(parents, i1 + 1, Len(parents)),
         LAMBDA rest :
         <<parents[i1], rest[RandomIndex(NextRng(r), Len(rest))]>>))

\* range(self.num_nets - self.num_elite): the number of children.
NumChildren(self) ==
    IF self.num_nets - self.num_elite > 0 THEN self.num_nets - self.num_elite ELSE 0

\* _spawn_children(parents): the pairs of parents are all drawn first, then
\* the children are built.  np.random.choice raises ValueError when there
\* are fewer than two parents to draw from.  Returns [networks, rng, created,
\* err].
_spawn_children(self, parents, r, made) ==
    With(NumChildren(self), LAMBDA count :
         IF count > 0 /\ Len(parents) < 2
         THEN [networks |-> <<>>, rng |-> r, created |-> made, err |-> "ValueError"]
         ELSE [networks |->
                  [k \in 1..count |->
                      NetworkPlayer(self.generation,
                                    Choice2(parents, RngAt(r, 2 * (k - 1))),
                                    RngAt(r, 2 * count + (k - 1) * ChildGenomeDraws),
                                    made + k)],
               rng |-> RngAt(r, 2 * count + count * ChildGenomeDraws),
               created |-> made + count,
               err |-> ""])

\* Population.__init__ when pop is None.
InitRandom(args, r, made) ==
    IF "num_nets" \notin DOMAIN args \/ "num_elite" \notin DOMAIN args
    THEN [pop |-> NoPop, rng |-> r, created |-> made, err |-> "ValueError"]
    ELSE [pop |-> [generation |-> 1,
                   num_nets |-> args.num_nets,
                   num_elite |-> args.num_elite,
                   elites |-> <<>>,
                   networks |->
                      [k \in 1..args.num_nets |->
                          NetworkPlayer(1, <<>>, RngAt(r, (k - 1) * RandomGenomeDraws),
                                        made + k)]],
          rng |-> RngAt(r, args.num_nets * RandomGenomeDraws),
          created |-> made + args.num_nets,
          err |-> ""]

\* Population.__init__ when pop is a Population, prev_networks being
\* pop.get_sorted_networks(include_elites=True).
InitFromPrev(prev, prev_networks, r, made) ==
    With([generation |-> prev.generation + 1,
          num_nets |-> prev.num_nets,
          num_elite |-> prev.num_elite,
          elites |-> SliceTo(prev_networks, prev.num_elite),
          networks |-> <<>>], LAMBDA self :
    With(_spawn_children(self, prev_networks, r, made), LAMBDA c :
         IF c.err # ""
         THEN [pop |-> NoPop, rng |-> c.rng, created |-> c.created, err |-> c.err]
         ELSE [pop |-> [self EXCEPT !.networks = c.networks],
               rng |-> c.rng, created |-> c.created, err |-> ""]))

\* Population(...): args holds the parameters that are bound to something
\* other than None, by name (num_nets, num_elite, pop).  Returns [pop, rng,
\* created, err]; err names the exception raised, "" when none was.
Population(args, r, made) ==
    IF "pop" \notin DOMAIN args THEN InitRandom(args, r, made)
    ELSE With(get_sorted_networks(args.pop, TRUE), LAMBDA prev_networks :
              InitFromPrev(args.pop, prev_networks, r, made))

\* randomize_population: a fresh NetworkPlayer() for every network.
\* Returns [pop, rng, created].
randomize_population(self, r, made) ==
    [pop |-> [self EXCEPT !.networks =
                 [k \in 1..Len(self.networks) |->
                     NetworkPlayer(0, <<>>, RngAt(r, (k - 1) * RandomGenomeDraws),
                                   made + k)]],
     rng |-> RngAt(r, Len(self.networks) * RandomGenomeDraws),
     created |-> made + Len(self.networks)]

\* The filter of play_games without the threshold: every agent plays.
PlaysAll(agent) == TRUE

\* play_games, the filter of line 113: an agent plays when it has no scores
\* or its average is above thresh = 0.
Plays(agent) == agent.scores = <<>> \/ AvgScoreAboveThresh(agent)

\* play_games, its loop over a list of agents from index k on; the agents
\* that pass the filter play games games each.  Returns [list, rng].
RECURSIVE PlayFrom(_, _, _, _)
PlayFrom(list, k, games, r) ==
    IF k > Len(list) THEN [list |-> list, rng |-> r]
    ELSE IF Plays(list[k])
         THEN With(play_multiple_games(list[k], games, r), LAMBDA a :
              With([list EXCEPT ![k] = a], LAMBDA list1 :
                   PlayFrom(list1, k + 1, games, RngAt(r, games))))
         ELSE PlayFrom(list, k + 1, games, r)

\* play_games(games, include_elites): the networks play, then the elites if
\* they are included.  Returns [pop, rng].
play_games(self, games, include_elites, r) ==
    With(PlayFrom(self.networks, 1, games, r), LAMBDA n :
         IF include_elites
         THEN With(PlayFrom(self.elites, 1, games, n.rng), LAMBDA e :
                   [pop |-> [self EXCEPT !.networks = n.list, !.elites = e.list],
                    rng |-> e.rng])
         ELSE [pop |-> [self EXCEPT !.networks = n.list], rng |-> n.rng])

-----------------------------------------------------------------------------
(* run_micro_genetic_alg (src/src/genetics/strategies.py).                 *)

\* NETS_PER_POP and NUM_ELITE: the configured population size and elite
\* count, those the population was built with.
NETS_PER_POP(self) == self.num_nets

NUM_ELITE(self) == self.num_elite

\* pop.networks = pop.get_sorted_networks(include_elites=False)[:k]
Cull(self, k) == [self EXCEPT !.networks = SliceTo(get_sorted_networks(self, FALSE), k)]

\* The two culls of a generation.
FirstCull(self) == Cull(self, (NETS_PER_POP(self) \div 2) - NUM_ELITE(self))

SecondCull(self) == Cull(self, (NETS_PER_POP(self) \div 4) - NUM_ELITE(self))

\* The key of the best agent, top_network.get_avg_score(), kept as the
\* fraction of the sum of the logarithms over the number of games.
TopScore(agent) ==
    [zero |-> HasZero(agent.scores),
     sumlog |-> IF HasZero(agent.scores) THEN 0 ELSE SumLog(agent.scores),
     games |-> Len(agent.scores)]

\* The call Population(pop) of line 33: pop is bound to the first
\* parameter, num_nets; a None binds nothing.
DriverArgs(p) == IF p = NoPop THEN <<>> ELSE [num_nets |-> p]

\* One pass of the loop of run_micro_genetic_alg after Population(pop)
\* returned built; st is [pop, rng, created, top_scores, err].
DriverBody(st, built) ==
    With(play_games(built.pop, 10, FALSE, built.rng), LAMBDA p1 :
    With(FirstCull(p1.pop), LAMBDA c1 :
    With(play_games(c1, 40, FALSE, p1.rng), LAMBDA p2 :
    With(SecondCull(p2.pop), LAMBDA c2 :
    With(play_games(c2, 150, FALSE, p2.rng), LAMBDA p3 :
    With(get_sorted_networks(p3.pop, TRUE), LAMBDA sorted :
         IF sorted = <<>>
         THEN [st EXCEPT !.err = "IndexError"]
         ELSE [pop |-> p3.pop, rng |-> p3.rng, created |-> built.created,
               top_scores |-> Append(st.top_scores, TopScore(sorted[1])),
               err |-> ""]))))))

\* The loop of run_micro_genetic_alg from pass gen on.
RECURSIVE DriverLoop(_, _, _)
DriverLoop(st, gen, num_generations) ==
    IF gen >= num_generations \/ st.err # "" THEN st
    ELSE With(Population(DriverArgs(st.pop), st.rng, st.created), LAMBDA built :
              IF built.err # ""
              THEN [st EXCEPT !.err = built.err]
              ELSE With(DriverBody(st, built), LAMBDA st1 :
                        DriverLoop(st1, gen + 1, num_generations)))

\* run_micro_genetic_alg(num_generations, pop).  After the loop pop.save is
\* called, which raises AttributeError on None.  Returns [pop, rng, created,
\* top_scores, err].
run_micro_genetic_alg(num_generations, p, r, made) ==
    With(DriverLoop([pop |-> p, rng |-> r, created |-> made, top_scores |-> <<>>,
                     err |-> ""], 0, num_generations), LAMBDA st :
         IF st.err = "" /\ st.pop = NoPop
         THEN [st EXCEPT !.err = "AttributeError"]
         ELSE st)

-----------------------------------------------------------------------------
(* The state machine of one Population and its callers.  The operations    *)
(* run in the order of a generation of run_micro_genetic_alg: the          *)
(* population is built, plays, is culled, plays, is culled, plays, and the *)
(* next population is built from it.                                       *)

\* Bounds: the population sizes and elite counts a population is built with,
\* and the generations built (and asked of run_micro_genetic_alg).
MaxNets == 12
MaxElite == 3
MaxGen == 3

\* The games of the three evaluations of a generation: the 10, 40 and 150
\* of run_micro_genetic_alg, scaled down.
StageGames == <<1, 2, 3>>

ZeroBoard == <<ZeroRow, ZeroRow, ZeroRow, ZeroRow>>

\* last for the operations of a population: the operation, the population
\* before it, the exception it raised ("" for none) and its arguments.
PLast(op, err, games, include_elites) ==
    [op |-> op, before |-> pop, err |-> err, games |-> games,
     include_elites |-> include_elites]

InitPop ==
    \E seed \in 1..MaxSeed :
        /\ board = ZeroBoard
        /\ score = 0
        /\ highest_tile = 0
        /\ game_over = FALSE
        /\ rng = seed
        /\ pc = "none"
        /\ picks = 0
        /\ calls = 0
        /\ scores = <<>>
        /\ highest_tiles = <<>>
        /\ last = [op |-> "init", before |-> NoPop, err |-> "", games |-> 0,
                   include_elites |-> FALSE]
        /\ NoPopulation

\* Population(num_nets, num_elite): the first generation.
NewPopulation ==
    /\ pc = "none"
    /\ \E num_nets \in 1..MaxNets :
       \E num_elite \in 0..(IF num_nets < MaxElite THEN num_nets ELSE MaxElite) :
       \E b \in {Population([num_nets |-> num_nets, num_elite |-> num_elite],
                            rng, created)} :
          /\ pop' = b.pop
          /\ rng' = b.rng
          /\ created' = b.created
          /\ last' = PLast("build", b.err, 0, FALSE)
    /\ pc' = "built"
    /\ UNCHANGED <<driver, top_scores, train>>
    /\ UNCHANGED gvars

\* pop.randomize_population(), at most once on a population just built.
Randomize ==
    /\ pc = "built"
    /\ last.op # "randomize"
    /\ \E b \in {randomize_population(pop, rng, created)} :
          /\ pop' = b.pop
          /\ rng' = b.rng
          /\ created' = b.created
    /\ last' = PLast("randomize", "", 0, FALSE)
    /\ UNCHANGED <<pc, driver, top_scores, train>>
    /\ UNCHANGED gvars

\* pop.play_games(games, include_elites), the three evaluations of a
\* generation, with the elites or without them.
PlayGames ==
    /\ pc \in {"built", "culled1", "culled2"}
    /\ \E games \in {StageGames[IF pc = "built" THEN 1
                                 ELSE IF pc = "culled1" THEN 2 ELSE 3]},
          include_elites \in BOOLEAN :
       \E b \in {play_games(pop, games, include_elites, rng)} :
          /\ pop' = b.pop
          /\ rng' = b.rng
          /\ last' = PLast("play", "", games, include_elites)
    /\ pc' = IF pc = "built" THEN "played1"
             ELSE IF pc = "culled1" THEN "played2" ELSE "played3"
    /\ UNCHANGED <<created, driver, top_scores, train>>
    /\ UNCHANGED gvars

\* The two culls of a generation.
CullStep ==
    /\ pc \in {"played1", "played2"}
    /\ pop' = IF pc = "played1" THEN FirstCull(pop) ELSE SecondCull(pop)
    /\ pc' = IF pc = "played1" THEN "culled1" ELSE "culled2"
    /\ last' = PLast("cull", "", 0, FALSE)
    /\ UNCHANGED <<rng, created, driver, top_scores, train>>
    /\ UNCHANGED gvars

\* Population(pop=pop): the next generation is built from the evaluated and
\* culled one.  When __init__ raises, no population is built.
NextPopulation ==
    /\ pc = "played3"
    /\ pop.generation < MaxGen
    /\ \E b \in {Population([pop |-> pop], rng, created)} :
          /\ pop' = IF b.err = "" THEN b.pop ELSE pop
          /\ rng' = b.rng
          /\ created' = b.created
          /\ last' = PLast("next", b.err, 0, FALSE)
          /\ pc' = IF b.err = "" THEN "built" ELSE "raised"
    /\ UNCHANGED <<driver, top_scores, train>>
    /\ UNCHANGED gvars

\* run_micro_genetic_alg(num_generations, pop), called once, on no
\* population or on one just built.
RunDriver ==
    /\ pc \in {"none", "built"}
    /\ driver = "idle"
    /\ \E num_generations \in 0..MaxGen :
       \E d \in {run_micro_genetic_alg(num_generations, pop, rng, created)} :
          /\ driver' = IF d.err = "" THEN "returned" ELSE d.err
          /\ top_scores' = d.top_scores
          /\ pop' = d.pop
          /\ rng' = d.rng
          /\ created' = d.created
          /\ last' = PLast("driver", d.err, num_generations, FALSE)
    /\ pc' = "driven"
    /\ UNCHANGED train
    /\ UNCHANGED gvars

NextPop ==
    NewPopulation \/ Randomize \/ PlayGames \/ CullStep \/ NextPopulation \/ RunDriver

SpecPop == InitPop /\ [][NextPop]_vars

-----------------------------------------------------------------------------
(* Genome(mom, dad) on its own: the parents are random genomes, the child  *)
(* is spawned from every state of the generator.                           *)

\* Bound: the generator states the two parents are drawn from.
MaxParentSeed == 8

\* Genome(mom, dad) with both parents given (genome.py line 17-18): the
\* arrays before mutation, the new object, and the parents after the call.
\* The rows of the parents are copied by np.array and mutate multiplies into
\* a new array, so no assignment reaches the parents' arrays.
Genome(mom, dad, r) ==
    With(Crossover(mom, dad, r), LAMBDA c :
         [mom |-> mom, dad |-> dad, crossed |-> c,
          self |-> MutateAll(c, RngAt(r, CrossDraws)),
          rng |-> RngAt(r, ChildGenomeDraws)])

InitGenome ==
    \E a \in 1..MaxParentSeed, b \in 1..MaxParentSeed, r \in 1..(RngMod - 1) :
        /\ board = ZeroBoard
        /\ score = 0
        /\ highest_tile = 0
        /\ game_over = FALSE
        /\ rng = r
        /\ pc = "parents"
        /\ picks = 0
        /\ calls = 0
        /\ scores = <<>>
        /\ highest_tiles = <<>>
        /\ last = [op |-> "parents", mom |-> RandomGenome(a),
                   dad |-> RandomGenome(b)]
        /\ NoPopulation

\* child = Genome(mom, dad)
SpawnChild ==
    /\ pc = "parents"
    /\ \E g \in {Genome(last.mom, last.dad, rng)} :
          /\ last' = [op |-> "spawn", mom |-> g.mom, dad |-> g.dad,
                      crossed |-> g.crossed, child |-> g.self,
                      before |-> [mom |-> last.mom, dad |-> last.dad]]
          /\ rng' = g.rng
    /\ pc' = "spawned"
    /\ UNCHANGED gvars
    /\ UNCHANGED pvars

SpecGenome == InitGenome /\ [][SpawnChild]_vars

-----------------------------------------------------------------------------
(* Board (src/src/game/board.py), the engine without score and             *)
(* highest_tile.  The object is the record [board, game_over]; game_over   *)
(* holds the Python value as an integer: 0 for False, -2 for ~True and -1  *)
(* for ~False, both of which an `if` reads as true.  An operator returns   *)
(* [self, ret, points, rng, err], err naming the exception raised.         *)

Board_slide_left(b) ==
    LET r(i) == SlideRow(b[i])
    IN  Tup4(r)

\* merge_left, the outer loop over the rows from row i on; st is
\* [board, points].
RECURSIVE Board_MergeRowsFrom(_, _)
Board_MergeRowsFrom(st, i) ==
    IF i > N THEN st
    ELSE With(MergeRowFrom([row |-> st.board[i], score |-> st.points], 1),
              LAMBDA m :
         With([board |-> [st.board EXCEPT ![i] = m.row], points |-> m.score],
              LAMBDA st1 : Board_MergeRowsFrom(st1, i + 1)))

\* Returns [board, points].
Board_merge_left(b) == Board_MergeRowsFrom([board |-> b, points |-> 0], 1)

\* move, lines 39-44: the rotation, slide, merge, slide and the rotation
\* back.  Returns [board, points].
Board_SlideMerge(b, rot) ==
    With(rot90(b, rot), LAMBDA turned :
    With(Board_slide_left(turned), LAMBDA b1 :
    With(Board_merge_left(b1), LAMBDA mg :
    With(Board_slide_left(mg.board), LAMBDA b3 :
    With(rot90(b3, -1 * rot), LAMBDA back :
         [board |-> back, points |-> mg.points])))))

\* add_tile with the generator in state r; np.random.choice raises
\* ValueError on an empty valid_pos.  Returns [self, rng, err].
Board_add_tile(self, r) ==
    With(ValidPos(self.board), LAMBDA valid_pos :
         IF valid_pos = <<>>
         THEN [self |-> self, rng |-> NextRng(r), err |-> "ValueError"]
         ELSE [self |->
                  [self EXCEPT !.board =
                      SetCell(self.board,
                              valid_pos[RandomIndex(NextRng(r), Len(valid_pos))],
                              IF RandomAbove09(r) THEN 2 ELSE 1)],
               rng |-> NextRng(NextRng(r)),
               err |-> ""])

RECURSIVE Board_move(_, _, _)
RECURSIVE has_legal_moves(_, _)

\* has_legal_moves on a full board that LEFT does not change, game_over
\* being false: the move(LEFT) of the first pass changes nothing, spawns
\* nothing and calls is_game_over, which calls has_legal_moves on the object
\* in the very same state.  The calls nest without end.
Diverges(self) ==
    /\ self.game_over = 0
    /\ AllNonZero(self.board)
    /\ Board_SlideMerge(self.board, RotOf(LEFT)).board = self.board

\* has_legal_moves, the loop over DIRECTIONS from index k on.  orig_board is
\* the copy taken before the loop; from the second pass on self.board is
\* that very array, and the move writes into it.
RECURSIVE LegalFrom(_, _, _, _)
LegalFrom(self, k, orig_board, r) ==
    IF k > Len(DIRECTIONS)
    THEN [self |-> self, ret |-> FALSE, points |-> 0, rng |-> r, err |-> ""]
    ELSE With(Board_move(self, DIRECTIONS[k], r), LAMBDA m :
         IF m.err # "" THEN m
         ELSE With(IF k = 1 THEN orig_board ELSE m.self.board, LAMBDA orig :
              IF m.ret
              THEN [self |-> [m.self EXCEPT !.board = orig], ret |-> TRUE,
                    points |-> 0, rng |-> m.rng, err |-> ""]
              ELSE LegalFrom([m.self EXCEPT !.board = orig], k + 1, orig, m.rng)))

has_legal_moves(self, r) ==
    IF Diverges(self)
    THEN [self |-> self, ret |-> FALSE, points |-> 0, rng |-> r,
          err |-> "RecursionError"]
    ELSE LegalFrom(self, 1, self.board, r)

\* ~True and ~False on a Python bool.
Invert(x) == IF x THEN -2 ELSE -1

\* np.all(self.board) and ~self.has_legal_moves(): ret is the value
\* returned, 0 (False) when a cell is empty.
is_game_over(self, r) ==
    IF ~AllNonZero(self.board)
    THEN [self |-> self, ret |-> 0, points |-> 0, rng |-> r, err |-> ""]
    ELSE With(has_legal_moves(self, r), LAMBDA h :
              [h EXCEPT !.ret = Invert(h.ret)])

\* move, lines 47-51; a is what add_tile returned, or the object after the
\* slide when the move was not legal.
Board_AfterSlide(a, move_was_legal, points_earned) ==
    IF a.err # ""
    THEN [self |-> a.self, ret |-> move_was_legal, points |-> points_earned,
          rng |-> a.rng, err |-> a.err]
    ELSE With(is_game_over(a.self, a.rng), LAMBDA g :
              IF g.err # ""
              THEN [g EXCEPT !.ret = move_was_legal, !.points = points_earned]
              ELSE [self |-> [g.self EXCEPT !.game_over = g.ret],
                    ret |-> move_was_legal, points |-> points_earned,
                    rng |-> g.rng, err |-> ""])

\* Board.move(direction).
Board_move(self, direction, r) ==
    IF self.game_over # 0
    THEN [self |-> self, ret |-> FALSE, points |-> 0, rng |-> r, err |-> ""]
    ELSE With(Board_SlideMerge(self.board, RotOf(direction)), LAMBDA sm :
         With([self EXCEPT !.board = sm.board], LAMBDA back :
              IF sm.board # self.board
              THEN With(Board_add_tile(back, r), LAMBDA a :
                        Board_AfterSlide(a, TRUE, sm.points))
              ELSE Board_AfterSlide([self |-> back, rng |-> r, err |-> ""],
                                    FALSE, sm.points)))

\* Board(): the empty board, game_over False, two tiles.
NewBoard(seed) ==
    With(Board_add_tile([board |-> <<<<0, 0, 0, 0>>, <<0, 0, 0, 0>>,
                                     <<0, 0, 0, 0>>, <<0, 0, 0, 0>>>>,
                         game_over |-> 0], seed), LAMBDA a1 :
         Board_add_tile(a1.self, a1.rng))

\* Bound: the calls of Board.move on one Board.
MaxBoardCalls == 300

\* The caller of a Board passes the directions in turn, starting with the
\* direction number picks.
TurnDirection == DIRECTIONS[((calls + picks) % Len(DIRECTIONS)) + 1]

InitBoard ==
    \E seed \in 1..MaxSeed, first \in 0..(Len(DIRECTIONS) - 1) :
        \E g \in {NewBoard(seed)} :
            /\ board = g.self.board
            /\ game_over = g.self.game_over
            /\ rng = g.rng
            /\ score = 0
            /\ highest_tile = 0
            /\ pc = "board"
            /\ picks = first
            /\ calls = 0
            /\ scores = <<>>
            /\ highest_tiles = <<>>
            /\ last = [op |-> "new", dir |-> None, ret |-> FALSE, points |-> 0,
                       err |-> "",
                       before |-> [board |-> g.self.board,
                                   game_over |-> g.self.game_over]]
            /\ NoPopulation

\* move_was_legal, points_earned = board.move(direction); score counts the
\* points the caller was handed.
BoardMove ==
    /\ pc = "board"
    /\ calls < MaxBoardCalls
    /\ \E m \in {Board_move([board |-> board, game_over |-> game_over],
                            TurnDirection, rng)} :
          /\ board' = m.self.board
          /\ game_over' = m.self.game_over
          /\ rng' = m.rng
          /\ score' = IF m.err = "" THEN score + m.points ELSE score
          /\ pc' = IF m.err = "" THEN "board" ELSE "raised"
          /\ last' = [op |-> "move", dir |-> TurnDirection, ret |-> m.ret,
                      points |-> m.points, err |-> m.err,
                      before |-> [board |-> board, game_over |-> game_over]]
    /\ calls' = calls + 1
    /\ UNCHANGED <<highest_tile, picks, scores, highest_tiles>>
    /\ UNCHANGED pvars

SpecBoard == InitBoard /\ [][BoardMove]_vars

-----------------------------------------------------------------------------
(* Net.make_move and the loop of Net.learn_game that tries its keys        *)
(* (src/net.py): the four outputs y of the network are ranked and the      *)
(* first key of the ranking whose move is legal is played.                 *)

\* moves = np.array([37, 38, 39, 40]): the keys of left, up, right, down.
moves == <<37, 38, 39, 40>>

\* y.argsort(): an index list that puts y in ascending order.  The default
\* kind of argsort is not a stable sort, so equal outputs come in any order.
Argsorts(y) ==
    {idx \in [1..Len(moves) -> 1..Len(moves)] :
        /\ \A i, j \in 1..Len(moves) : idx[i] = idx[j] => i = j
        /\ \A i \in 1..(Len(moves) - 1) : y[idx[i]] <= y[idx[i + 1]]}

\* moves[idx[::-1]]
Net_make_move(idx) == [i \in 1..Len(moves) |-> moves[idx[Len(moves) + 1 - i]]]

\* learn_game, for key in keys: the first key whose move is legal; legal is
\* the set of the keys that change the board.
RECURSIVE FirstLegalKey(_, _, _)
FirstLegalKey(keys, legal, i) ==
    IF i > Len(keys) THEN 0
    ELSE IF keys[i] \in legal THEN keys[i]
    ELSE FirstLegalKey(keys, legal, i + 1)

InitRank ==
    \E y \in Outs, legal \in (SUBSET {moves[i] : i \in 1..Len(moves)}) \ {{}} :
        /\ board = ZeroBoard
        /\ score = 0
        /\ highest_tile = 0
        /\ game_over = FALSE
        /\ rng = 1
        /\ pc = "outputs"
        /\ picks = 0
        /\ calls = 0
        /\ scores = <<>>
        /\ highest_tiles = <<>>
        /\ last = [op |-> "outputs", outs |-> y, legal |-> legal]
        /\ NoPopulation

\* keys = self.make_move(g.board), then the loop over the keys.
MakeMove ==
    /\ pc = "outputs"
    /\ \E idx \in Argsorts(last.outs) :
       \E keys \in {Net_make_move(idx)} :
          last' = [op |-> "rank", outs |-> last.outs, legal |-> last.legal,
                   keys |-> keys, key |-> FirstLegalKey(keys, last.legal, 1)]
    /\ pc' = "ranked"
    /\ UNCHANGED <<rng>>
    /\ UNCHANGED gvars
    /\ UNCHANGED pvars

SpecRank == InitRank /\ [][MakeMove]_vars

-----------------------------------------------------------------------------
(* move as a function of the board and the direction: a board is drawn,    *)
(* and move(direction, add_tile=False) is applied to it once.              *)

\* Bounds: the generator states the boards are drawn from, and by how much
\* the draw of a cell is tilted towards the empty cell.
MaxBoardSeed == 60
MaxSparse == 3

\* A board whose cells are drawn one by one from state s on: rank 0..MaxRank,
\* or empty for the sparse further outcomes of the draw.
DrawnBoard(s, sparse) ==
    LET cell(p) ==
            With(RandomIndex(RngAt(s, p), MaxRank + 1 + sparse) - 1, LAMBDA v :
                 IF v > MaxRank THEN 0 ELSE v)
        row(i) == LET c(j) == cell((i - 1) * N + (j - 1)) IN Tup4(c)
    IN  Tup4(row)

InitDirs ==
    \E s \in 1..MaxBoardSeed, sparse \in 0..MaxSparse :
        /\ board = DrawnBoard(s, sparse)
        /\ score = 0
        /\ highest_tile = 2 ^ MaxRankOf(DrawnBoard(s, sparse))
        /\ game_over = FALSE
        /\ rng = 1
        /\ pc = "drawn"
        /\ picks = 0
        /\ calls = 0
        /\ scores = <<>>
        /\ highest_tiles = <<>>
        /\ last = [op |-> "new", dir |-> None, ret |-> FALSE, legal |-> <<>>,
                   outs |-> <<>>,
                   before |-> [board |-> ZeroBoard, score |-> 0,
                               highest_tile |-> 0, game_over |-> FALSE]]
        /\ NoPopulation

\* game.move(direction, add_tile=False)
MoveDir ==
    /\ pc = "drawn"
    /\ \E k \in 1..Len(DIRECTIONS) :
       \E m \in {move(Self, DIRECTIONS[k], FALSE, rng)} :
          /\ SetSelf(m.self)
          /\ last' = Last("dir", DIRECTIONS[k], m.ret, <<>>, <<>>)
    /\ pc' = "moved"
    /\ UNCHANGED <<rng, picks, calls, scores, highest_tiles>>
    /\ UNCHANGED pvars

SpecDirs == InitDirs /\ [][MoveDir]_vars

-----------------------------------------------------------------------------
(* Population and train_population of src/src/population.py, the lineage   *)
(* with one genepool: the 2 best nets are copied into the next genepool    *)
(* next to 8 children, and every net of the genepool plays each            *)
(* generation.                                                             *)

\* range(8), 10 - current and genepool[:2].
TrainChildren == 8
TrainNets == 10
TrainElite == 2

\* Bounds: play_games(games=50) scaled down, the generations of one call and
\* the seeds of the generator.
TrainGames == 2
MaxTrainGen == 3
MaxTrainSeed == 40

\* a.get_avg_highest_tile() > b.get_avg_highest_tile(), the geometric means
\* compared as the fractions of the sums of the logarithms.
AvgTileAbove(a, b) ==
    /\ a.highest_tiles # <<>>
    /\ b.highest_tiles # <<>>
    /\ SumLog(a.highest_tiles) * Len(b.highest_tiles)
          > SumLog(b.highest_tiles) * Len(a.highest_tiles)

\* InsertByTile for an ascending sort: x goes before the first net whose
\* average is above its own.
RECURSIVE InsertByTileAscending(_, _, _)
InsertByTileAscending(sorted, x, i) ==
    IF i > Len(sorted) THEN Append(sorted, x)
    ELSE IF AvgTileAbove(sorted[i], x)
         THEN SubSeq(sorted, 1, i - 1) \o <<x>> \o SubSeq(sorted, i, Len(sorted))
         ELSE InsertByTileAscending(sorted, x, i + 1)

\* genepool.sort(key=get_avg_highest_tile, reverse=True), one insertion of
\* the stable sort.
RECURSIVE InsertByTile(_, _, _)
InsertByTile(sorted, x, i) ==
    IF i > Len(sorted) THEN Append(sorted, x)
    ELSE IF AvgTileAbove(x, sorted[i])
         THEN SubSeq(sorted, 1, i - 1) \o <<x>> \o SubSeq(sorted, i, Len(sorted))
         ELSE InsertByTile(sorted, x, i + 1)

RECURSIVE SortByTileFrom(_, _, _)
SortByTileFrom(seq, k, acc) ==
    IF k > Len(seq) THEN acc
    ELSE With(InsertByTile(acc, seq[k], 1), LAMBDA acc1 :
              SortByTileFrom(seq, k + 1, acc1))

sort_by_tile(genepool) == SortByTileFrom(genepool, 1, <<>>)

\* _tournament(parents): 8 times four parents are drawn, with replacement,
\* and the better of each pair by average score is kept.  Returns
\* [moms, dads].
Drawn(parents, r, k) == parents[RandomIndex(RngAt(r, k), Len(parents))]

Better(n1, n2) == IF AvgScoreAbove(n1, n2) THEN n1 ELSE n2

_tournament(parents, r) ==
    [moms |-> [i \in 1..TrainChildren |->
                  Better(Drawn(parents, r, 4 * (i - 1)),
                         Drawn(parents, r, 4 * (i - 1) + 1))],
     dads |-> [i \in 1..TrainChildren |->
                  Better(Drawn(parents, r, 4 * (i - 1) + 2),
                         Drawn(parents, r, 4 * (i - 1) + 3))]]

\* Population(gen, elite, parents) of src/src/population.py; None is the
\* empty list for elite and for parents.  Returns [genepool, rng, created].
TrainPopulation(gen, elite, parents, r, made) ==
    IF parents # <<>>
    THEN With(_tournament(parents, r), LAMBDA t :
              [genepool |->
                  elite \o
                  [i \in 1..TrainChildren |->
                      NetworkPlayer(gen, <<t.moms[i], t.dads[i]>>,
                                    RngAt(r, 4 * TrainChildren
                                             + (i - 1) * ChildGenomeDraws),
                                    made + i)],
               rng |-> RngAt(r, 4 * TrainChildren + TrainChildren * ChildGenomeDraws),
               created |-> made + TrainChildren])
    ELSE With(IF TrainNets > Len(elite) THEN TrainNets - Len(elite) ELSE 0,
              LAMBDA count :
              [genepool |->
                  elite \o
                  [i \in 1..count |->
                      NetworkPlayer(gen, <<>>, RngAt(r, (i - 1) * RandomGenomeDraws),
                                    made + i)],
               rng |-> RngAt(r, count * RandomGenomeDraws),
               created |-> made + count])

\* play_games(games): every net of the genepool plays, from index k on.
RECURSIVE TrainPlayFrom(_, _, _, _)
TrainPlayFrom(genepool, k, games, r) ==
    IF k > Len(genepool) THEN [genepool |-> genepool, rng |-> r]
    ELSE With(play_multiple_games(genepool[k], games, r), LAMBDA a :
         With([genepool EXCEPT ![k] = a], LAMBDA g1 :
              TrainPlayFrom(g1, k + 1, games, RngAt(r, games))))

\* genepool[0].get_avg_highest_tile(), kept as the fraction of the sum of the
\* logarithms over the number of games.
TopTile(agent) ==
    [sumlog |-> SumLog(agent.highest_tiles), games |-> Len(agent.highest_tiles)]

\* One pass of the loop of train_population; fr holds gen (the generation
\* done last), elite, parents, top_tiles and the sorted genepool.  Returns
\* [train, rng, created].
TrainBody(fr, r, made) ==
    With(TrainPopulation(fr.gen + 1, fr.elite, fr.parents, r, made), LAMBDA built :
    With(TrainPlayFrom(built.genepool, 1, TrainGames, built.rng), LAMBDA played :
    With(sort_by_tile(played.genepool), LAMBDA sorted :
         [train |->
             [gen |-> fr.gen + 1,
              final_gen |-> fr.final_gen,
              elite |-> SliceTo(sorted, TrainElite),
              parents |-> IF (fr.gen + 1) % 10 = 0 THEN <<>> ELSE sorted,
              top_tiles |-> Append(fr.top_tiles, TopTile(sorted[1])),
              genepool |-> sorted],
          rng |-> played.rng,
          created |-> built.created])))

\* The values of initial_gen the function is called with: a fresh lineage,
\* and one that passes generation 10, after which parents is None.
InitialGens == {0, 8}

\* train_population(final_gen, initial_gen), before the first pass.
InitTrain ==
    \E seed \in 1..MaxTrainSeed, initial_gen \in InitialGens :
        /\ board = ZeroBoard
        /\ score = 0
        /\ highest_tile = 0
        /\ game_over = FALSE
        /\ rng = seed
        /\ pc = "train"
        /\ picks = 0
        /\ calls = 0
        /\ scores = <<>>
        /\ highest_tiles = <<>>
        /\ last = [op |-> "call", before |-> NoTrain]
        /\ pop = NoPop
        /\ created = 0
        /\ driver = "idle"
        /\ top_scores = <<>>
        /\ train = [NoTrain EXCEPT !.gen = initial_gen,
                                   !.final_gen = initial_gen + MaxTrainGen]

\* One generation: the pass of the loop for gen = train.gen + 1.
TrainGeneration ==
    /\ pc = "train"
    /\ train.gen < train.final_gen
    /\ \E b \in {TrainBody(train, rng, created)} :
          /\ train' = b.train
          /\ rng' = b.rng
          /\ created' = b.created
    /\ last' = [op |-> "generation", before |-> train]
    /\ UNCHANGED <<pc, pop, driver, top_scores>>
    /\ UNCHANGED gvars

SpecTrain == InitTrain /\ [][TrainGeneration]_vars

-----------------------------------------------------------------------------
(* The reference 2048 move, written from the rules of the game and not     *)
(* from the code: the tiles of a line are taken in order from the edge     *)
(* they move to, equal neighbours are paired greedily from that edge.      *)

\* The non-empty ranks of a line, in order.
RECURSIVE RefPack(_)
RefPack(line) ==
    IF line = <<>> THEN <<>>
    ELSE IF Head(line) = 0 THEN RefPack(Tail(line))
    ELSE <<Head(line)>> \o RefPack(Tail(line))

\* The packed line after the merges.
RECURSIVE RefMerged(_)
RefMerged(pk) ==
    IF Len(pk) < 2 THEN pk
    ELSE IF pk[1] = pk[2] THEN <<pk[1] + 1>> \o RefMerged(Tail(Tail(pk)))
    ELSE <<pk[1]>> \o RefMerged(Tail(pk))

\* The points of the merges: 2^(new rank) for each.
RECURSIVE RefPoints(_)
RefPoints(pk) ==
    IF Len(pk) < 2 THEN 0
    ELSE IF pk[1] = pk[2] THEN 2 ^ (pk[1] + 1) + RefPoints(Tail(Tail(pk)))
    ELSE RefPoints(Tail(pk))

\* The number of merges.
RECURSIVE RefMerges(_)
RefMerges(pk) ==
    IF Len(pk) < 2 THEN 0
    ELSE IF pk[1] = pk[2] THEN 1 + RefMerges(Tail(Tail(pk)))
    ELSE RefMerges(Tail(pk))

RefPad(pk) == LET padded == pk \o ZeroRow IN <<padded[1], padded[2], padded[3], padded[4]>>

RefLineMove(line) == RefPad(RefMerged(RefPack(line)))

\* Line i of board b for a direction: the cells from the edge the tiles move
\* to, to the opposite edge.
RefLine(b, direction, i) ==
    IF direction = LEFT THEN <<b[i][1], b[i][2], b[i][3], b[i][4]>>
    ELSE IF direction = RIGHT THEN <<b[i][4], b[i][3], b[i][2], b[i][1]>>
    ELSE IF direction = UP THEN <<b[1][i], b[2][i], b[3][i], b[4][i]>>
    ELSE <<b[4][i], b[3][i], b[2][i], b[1][i]>>

\* Whether the move in a direction changes the grid.
RefChanges(b, direction) ==
    \E i \in 1..N : RefLineMove(RefLine(b, direction, i)) # RefLine(b, direction, i)

\* The merges a move in a direction performs on the grid.
RECURSIVE RefMergesFrom(_, _, _)
RefMergesFrom(b, direction, i) ==
    IF i > N THEN 0
    ELSE RefMerges(RefPack(RefLine(b, direction, i))) + RefMergesFrom(b, direction, i + 1)

\* The number of non-empty cells.
TileCount(b) == Cardinality({p \in 0..(N * N - 1) : Cell(b, p) # 0})

RefFull(b) == TileCount(b) = N * N

RefLegal(b) == SelectSeq(DIRECTIONS, LAMBDA d : RefChanges(b, d))

IsDirection(d) == d \in {LEFT, RIGHT, UP, DOWN}

-----------------------------------------------------------------------------
(* The claims.                                                             *)

\* C1: in every state reached by move calls, game_over is true if and only
\* if all 16 cells are non-zero and no direction would change the grid; a
\* board with an empty cell is never game_over.
C1_GameOverIffDead ==
    /\ game_over <=> (RefFull(board) /\ \A d \in {LEFT, RIGHT, UP, DOWN} : ~RefChanges(board, d))
    /\ ~RefFull(board) => ~game_over

\* A move has just ended the game.
C1_Witness ==
    /\ last.op = "move"
    /\ ~last.before.game_over
    /\ game_over

\* C2 as stated: across a move call the number of non-zero cells grows by
\* exactly 1 when the move is legal and by 0 when it is illegal, so it never
\* decreases.
C2_CountGrowsByOne ==
    (last.op = "move" /\ IsDirection(last.dir)) =>
        /\ TileCount(board) >= TileCount(last.before.board)
        /\ TileCount(board) = TileCount(last.before.board)
              + (IF ~last.before.game_over /\ RefChanges(last.before.board, last.dir)
                 THEN 1 ELSE 0)

\* C2 as amended: a legal move changes the number of non-zero cells by 1 (the
\* spawn) minus the number of merges it performs; an illegal move leaves it
\* unchanged.
C2_CountSpawnMinusMerges ==
    (last.op = "move" /\ IsDirection(last.dir)) =>
        TileCount(board) = TileCount(last.before.board)
              + (IF ~last.before.game_over /\ RefChanges(last.before.board, last.dir)
                 THEN 1 - RefMergesFrom(last.before.board, last.dir, 1) ELSE 0)

\* A legal move that merged two pairs or more: the count went down.
C2_Witness ==
    /\ last.op = "move"
    /\ last.ret
    /\ TileCount(board) < TileCount(last.before.board)

C4_RejectedMoveIsNoOp ==
    (/\ last.op = "move"
     /\ IsDirection(last.dir)
     /\ (last.before.game_over \/ ~RefChanges(last.before.board, last.dir))) =>
        /\ ~last.ret
        /\ Self = last.before

\* A move called on a game that is over.
C4_Witness ==
    /\ last.op = "move"
    /\ last.before.game_over
    /\ ~last.ret

\* C5: slide_left, merge_left, slide_left on a row gives the reference left
\* move of the row, and the score grows by the sum of 2^(new rank) over the
\* merges.
C5_RowMatchesReference ==
    last.op = "left" =>
        /\ \A i \in 1..N : board[i] = RefLineMove(last.before.board[i])
        /\ score = last.before.score
                    + RefPoints(RefPack(last.before.board[1]))
                    + RefPoints(RefPack(last.before.board[2]))
                    + RefPoints(RefPack(last.before.board[3]))
                    + RefPoints(RefPack(last.before.board[4]))
        /\ (\E i \in 1..N : last.before.board[i] = <<1, 1, 2, 0>>) =>
              (\E i \in 1..N : board[i] = <<2, 2, 0, 0>>) /\ score = 4
        /\ (\E i \in 1..N : last.before.board[i] = <<1, 1, 1, 1>>) =>
              (\E i \in 1..N : board[i] = <<2, 2, 0, 0>>) /\ score = 8

\* The row 2 2 2 2 (ranks 1 1 1 1) moved left.
C5_Witness ==
    /\ last.op = "left"
    /\ last.before.board[2] = <<1, 1, 1, 1>>
    /\ board[2] = <<2, 2, 0, 0>>
    /\ score = 8

\* C6: a game played by play_game with legal moves reaches game_over.
C6_GameTerminates == <>game_over

\* play_game has left its loop on a finished game and recorded it.
C6_Witness ==
    /\ pc = "done"
    /\ game_over
    /\ Len(scores) = 1

\* C7 as stated: choose_action returns a legal direction whose output is the
\* highest among the legal directions.
C7_ChoosesBestLegal ==
    last.op = "choose" =>
        \E k \in 1..Len(DIRECTIONS) :
            /\ last.dir = DIRECTIONS[k]
            /\ RefChanges(last.before.board, DIRECTIONS[k])
            /\ \A j \in 1..Len(DIRECTIONS) :
                  RefChanges(last.before.board, DIRECTIONS[j]) =>
                      last.outs[k] >= last.outs[j]

\* The geometric mean of the scores ss is above that of tt (both lists
\* non-empty): the means of the logarithms compared as fractions.
GeoMeanAbove(ss, tt) ==
    /\ ~HasZero(ss)
    /\ HasZero(tt) \/ SumLog(ss) * Len(tt) > SumLog(tt) * Len(ss)

\* C8 as stated: every population that Population.__init__ built, the first
\* generation or the next one from a culled population, holds num_nets agents
\* in networks and elites together, also after randomize_population.
C8_SizeIsNumNets ==
    (last.op \in {"build", "next", "randomize"} /\ last.err = "") =>
        Len(pop.networks) + Len(pop.elites) = pop.num_nets

\* C9 as stated: the elites of a population built from a previous one are
\* exactly num_elite agents of the previous networks and elites, none of the
\* others has a higher fitness, and each elite is the agent it was, with its
\* genome, scores and highest_tiles.
C9_ElitesAreTopUnchanged ==
    (last.op = "next" /\ last.err = "") =>
        /\ Len(pop.elites) = pop.num_elite
        /\ \A i \in 1..Len(pop.elites) :
              /\ \E j \in 1..Len(last.before.networks \o last.before.elites) :
                    (last.before.networks \o last.before.elites)[j] = pop.elites[i]
              /\ \A k \in 1..Len(pop.elites) :
                    pop.elites[k].id = pop.elites[i].id => k = i
        /\ \A j \in 1..Len(last.before.networks \o last.before.elites) :
              (\A i \in 1..Len(pop.elites) :
                    pop.elites[i].id # (last.before.networks \o last.before.elites)[j].id)
              => \A i \in 1..Len(pop.elites) :
                    ~GeoMeanAbove((last.before.networks \o last.before.elites)[j].scores,
                                  pop.elites[i].scores)

\* C10 as stated: a run of run_micro_genetic_alg over one generation or more,
\* from a population with at least one elite, returns a top_scores list with
\* one entry per generation that never decreases.
C10_TopScoresNonDecreasing ==
    (last.op = "driver" /\ last.games >= 1 /\ last.before.num_elite >= 1) =>
        /\ driver = "returned"
        /\ Len(top_scores) = last.games
        /\ \A i \in 1..(Len(top_scores) - 1) :
              \/ top_scores[i].zero
              \/ /\ ~top_scores[i + 1].zero
                 /\ top_scores[i].sumlog * top_scores[i + 1].games
                       <= top_scores[i + 1].sumlog * top_scores[i].games

\* The weights of a genome as one list of rows: input, hidden layers, output.
RECURSIVE RowsOfLayers(_, _)
RowsOfLayers(hidden, l) ==
    IF l > Len(hidden) THEN <<>> ELSE hidden[l] \o RowsOfLayers(hidden, l + 1)

RowsOf(g) == g.input_weights \o RowsOfLayers(g.hidden_weights, 1) \o g.output_weights

\* C11: after child = Genome(mom, dad), every weight of the child as it was
\* before mutation equals the weight of mom or of dad at the same position,
\* and mom and dad have the weights they had before the call.
C11_CrossoverFromParents ==
    last.op = "spawn" =>
        /\ \A i \in 1..Len(RowsOf(last.crossed)) :
           \A j \in 1..Len(RowsOf(last.crossed)[i]) :
              \/ RowsOf(last.crossed)[i][j] = RowsOf(last.before.mom)[i][j]
              \/ RowsOf(last.crossed)[i][j] = RowsOf(last.before.dad)[i][j]
        /\ last.mom = last.before.mom
        /\ last.dad = last.before.dad

\* A child that took a row from mom that dad does not have and a row from dad
\* that mom does not have, and that mutation then changed.
C11_Witness ==
    /\ last.op = "spawn"
    /\ \E i \in 1..Len(RowsOf(last.crossed)) :
          /\ RowsOf(last.crossed)[i] = RowsOf(last.mom)[i]
          /\ RowsOf(last.crossed)[i] # RowsOf(last.dad)[i]
    /\ \E i \in 1..Len(RowsOf(last.crossed)) :
          /\ RowsOf(last.crossed)[i] = RowsOf(last.dad)[i]
          /\ RowsOf(last.crossed)[i] # RowsOf(last.mom)[i]
    /\ last.child # last.crossed

\* The agents of the list after are those of the list before, in the same
\* order.
SameMembers(before, after) ==
    /\ Len(after) = Len(before)
    /\ \A i \in 1..Len(before) : after[i].id = before[i].id

\* The agent after has exactly n more recorded games than the agent before.
PlayedMore(before, after, n) ==
    /\ Len(after.scores) = Len(before.scores) + n
    /\ Len(after.highest_tiles) = Len(before.highest_tiles) + n

PlayedIfAboveThresh(before, after, n) ==
    IF before.scores = <<>> \/ ~HasZero(before.scores)
    THEN /\ PlayedMore(before, after, n)
         /\ SubSeq(after.scores, 1, Len(before.scores)) = before.scores
         /\ SubSeq(after.highest_tiles, 1, Len(before.highest_tiles))
               = before.highest_tiles
    ELSE after = before

TopOf(kept, all) ==
    /\ \A i \in 1..Len(kept) : \E j \in 1..Len(all) : all[j] = kept[i]
    /\ \A j \in 1..Len(all) :
          (\A i \in 1..Len(kept) : kept[i].id # all[j].id) =>
              \A i \in 1..Len(kept) : ~GeoMeanAbove(all[j].scores, kept[i].scores)

\* C13 as stated: in a generation, after the first cull networks and elites
\* together are half of the configured population size, after the second
\* cull one quarter of it, and the networks that survive a cull are the
\* highest-fitness networks of the stage before.
C13_CullsLeaveHalfAndQuarter ==
    last.op = "cull" =>
        /\ pc = "culled1" =>
              Len(pop.networks) + Len(pop.elites) = pop.num_nets \div 2
        /\ pc = "culled2" =>
              Len(pop.networks) + Len(pop.elites) = pop.num_nets \div 4
        /\ TopOf(pop.networks, last.before.networks)
        /\ pop.elites = last.before.elites

\* C14 as stated: Population(pop=prev) on a previous population with fewer
\* than 2 agents in networks and elites together raises an error, and no
\* population is built.
C14_TooFewParentsRaises ==
    (last.op = "next"
        /\ Len(last.before.networks) + Len(last.before.elites) < 2) =>
        /\ last.err # ""
        /\ pop = last.before

\* C15 as stated: after any sequence of Board.move calls game_over is set
\* only when the grid has no empty cell and no direction would change it.
C15_BoardGameOverOnlyWhenDead ==
    (pc = "board" /\ game_over # 0) =>
        /\ AllNonZero(board)
        /\ \A k \in 1..Len(DIRECTIONS) : ~RefChanges(board, DIRECTIONS[k])

\* The place of a key in the canonical list moves.
KeyIndex(key) == CHOOSE i \in 1..Len(moves) : moves[i] = key

\* C16 as stated: the ranking lists the directions by descending output,
\* directions with equal outputs in their canonical order, and the move
\* played is the earliest in canonical order of the legal directions that
\* have the highest output among the legal ones.
C16_TiesInCanonicalOrder ==
    last.op = "rank" =>
        /\ \A i, j \in 1..Len(last.keys) :
              (i < j /\ last.outs[KeyIndex(last.keys[i])]
                           = last.outs[KeyIndex(last.keys[j])])
                  => KeyIndex(last.keys[i]) < KeyIndex(last.keys[j])
        /\ last.key \in last.legal
        /\ \A k \in last.legal :
              \/ last.outs[KeyIndex(k)] < last.outs[KeyIndex(last.key)]
              \/ /\ last.outs[KeyIndex(k)] = last.outs[KeyIndex(last.key)]
                 /\ KeyIndex(last.key) <= KeyIndex(k)

\* The left-right mirror and the transpose of a grid.
Mirror(b) == [i \in 1..N |-> [j \in 1..N |-> b[i][N + 1 - j]]]

Transpose(b) == [i \in 1..N |-> [j \in 1..N |-> b[j][i]]]

\* Game.move(direction, add_tile=False) on a fresh game with the grid b: the
\* grid and the points it leaves.
Moved(b, direction) ==
    With(move([board |-> b, score |-> 0, highest_tile |-> 0, game_over |-> FALSE],
              direction, FALSE, 0), LAMBDA m :
         [board |-> m.self.board, points |-> m.self.score])

\* C17: what move(direction) leaves of a board is, line by line, the
\* reference move towards that direction; RIGHT is the mirror of LEFT on the
\* mirrored board, UP the transpose of LEFT on the transposed board, DOWN the
\* transpose of RIGHT on the transposed board, each with the points of that
\* LEFT or RIGHT move; Board.move slides and merges to the same grid and
\* points.
C17_DirectionsBySymmetry ==
    last.op = "dir" =>
        /\ \A i \in 1..N :
              RefLine(board, last.dir, i)
                  = RefLineMove(RefLine(last.before.board, last.dir, i))
        /\ last.dir = RIGHT =>
              With(Moved(Mirror(last.before.board), LEFT), LAMBDA l :
                   board = Mirror(l.board) /\ score = l.points)
        /\ last.dir = UP =>
              With(Moved(Transpose(last.before.board), LEFT), LAMBDA l :
                   board = Transpose(l.board) /\ score = l.points)
        /\ last.dir = DOWN =>
              With(Moved(Transpose(last.before.board), RIGHT), LAMBDA r :
                   board = Transpose(r.board) /\ score = r.points)
        /\ With(Board_SlideMerge(last.before.board, RotOf(last.dir)), LAMBDA sm :
                board = sm.board /\ score = sm.points)

\* A move UP or DOWN that merged tiles on a board that is not symmetric, so
\* that the four directions leave four different grids.
C17_Witness ==
    /\ last.op = "dir"
    /\ last.dir \in {UP, DOWN}
    /\ score > 0
    /\ Moved(last.before.board, LEFT).board # Moved(last.before.board, RIGHT).board
    /\ Moved(last.before.board, UP).board # Moved(last.before.board, DOWN).board
    /\ Moved(last.before.board, UP).board # Moved(last.before.board, LEFT).board
    /\ Moved(last.before.board, DOWN).board # Moved(last.before.board, RIGHT).board

\* The fraction a is not above the fraction b.
FracLeq(a, b) == a.sumlog * b.games <= b.sumlog * a.games

\* C18 as stated: the top_tiles of train_population never decrease from one
\* generation to the next.
C18_TopTilesNonDecreasing ==
    \A i \in 1..(Len(train.top_tiles) - 1) :
        FracLeq(train.top_tiles[i], train.top_tiles[i + 1])

\* C18, amended: after each generation top_tiles has one more entry, the
\* highest average highest tile of the genepool of 10 after all its nets
\* played; the 2 elites of the generation before are in that genepool with
\* their earlier records and the games of this generation, so the entry is
\* not below the average either of them has now.
C18_TopTilesAtLeastElitesNow ==
    last.op = "generation" =>
        /\ Len(train.top_tiles) = Len(last.before.top_tiles) + 1
        /\ SubSeq(train.top_tiles, 1, Len(last.before.top_tiles))
              = last.before.top_tiles
        /\ Len(train.genepool) = TrainNets
        /\ \A i \in 1..Len(train.genepool) :
              FracLeq(TopTile(train.genepool[i]),
                      train.top_tiles[Len(train.top_tiles)])
        /\ \A e \in 1..Len(last.before.elite) :
              \E i \in 1..Len(train.genepool) :
                  /\ train.genepool[i].id = last.before.elite[e].id
                  /\ Len(train.genepool[i].highest_tiles)
                        = Len(last.before.elite[e].highest_tiles) + TrainGames
                  /\ SubSeq(train.genepool[i].highest_tiles, 1,
                            Len(last.before.elite[e].highest_tiles))
                        = last.before.elite[e].highest_tiles

\* A generation with the 2 elites of the one before in its genepool whose
\* best average is below the best average of the one before.
C18_Witness ==
    /\ last.op = "generation"
    /\ Len(last.before.elite) = TrainElite
    /\ ~FracLeq(train.top_tiles[Len(train.top_tiles) - 1],
                train.top_tiles[Len(train.top_tiles)])

\* C19 as stated: in every state of a Game, the one right after construction
\* included, highest_tile is 2 to the largest rank on the board.
C19_HighestTileIsMaxOnBoard == highest_tile = 2 ^ MaxRankOf(board)

\* The grid after is the grid slid with one more tile, of rank 1 or 2, on a
\* cell that was empty.
SpawnedOnEmpty(slid, after) ==
    \E p \in 0..(N * N - 1) :
        /\ Cell(slid, p) = 0
        /\ Cell(after, p) \in {1, 2}
        /\ \A q \in 0..(N * N - 1) : q # p => Cell(after, q) = Cell(slid, q)

\* C20: a new Game holds two tiles of rank 1 or 2; a legal move leaves, after
\* its slide and merge, a grid with an empty cell, and the tile it spawns has
\* rank 1 or 2 and lands on a cell of that grid that was empty; a move that
\* is not legal spawns nothing.
C20_SpawnOnEmptyCell ==
    /\ last.op = "new" =>
          /\ TileCount(board) = 2
          /\ \A p \in 0..(N * N - 1) : Cell(board, p) \in {0, 1, 2}
    /\ (last.op = "move" /\ last.ret) =>
          With(Moved(last.before.board, last.dir).board, LAMBDA slid :
               /\ slid # last.before.board
               /\ ValidPos(slid) # <<>>
               /\ SpawnedOnEmpty(slid, board))
    /\ (last.op = "move" /\ ~last.ret) => board = last.before.board

\* A legal move on a full board: the merge freed the only empty cell and the
\* new tile filled it.
C20_Witness ==
    /\ last.op = "move"
    /\ last.ret
    /\ AllNonZero(last.before.board)
    /\ TileCount(Moved(last.before.board, last.dir).board) = N * N - 1
    /\ AllNonZero(board)

\* The face value of a cell: 2 to its rank, nothing for an empty cell.
FaceValue(rank) == IF rank = 0 THEN 0 ELSE 2 ^ rank

RECURSIVE FaceSumFrom(_, _)
FaceSumFrom(b, p) ==
    IF p > N * N - 1 THEN 0
    ELSE FaceValue(Cell(b, p)) + FaceSumFrom(b, p + 1)

\* The sum of the face values of the tiles of a grid.
FaceSum(b) == FaceSumFrom(b, 0)

\* C21: the slide and merge of a move in any direction leave the sum of the
\* face values of the board as it was; a legal move raises the sum by the
\* face value of the tile it spawns, 2 or 4; a move that is not legal and a
\* call of get_legal_moves leave the sum, and the board, as they were.
C21_FaceSumConserved ==
    /\ \A d \in {LEFT, RIGHT, UP, DOWN} :
          FaceSum(Moved(board, d).board) = FaceSum(board)
    /\ (last.op = "move" /\ last.ret) =>
          FaceSum(board) - FaceSum(last.before.board) \in {2, 4}
    /\ (last.op = "move" /\ ~last.ret) =>
          /\ board = last.before.board
          /\ FaceSum(board) = FaceSum(last.before.board)
    /\ last.op = "probe" =>
          /\ board = last.before.board
          /\ FaceSum(board) = FaceSum(last.before.board)

\* A legal move that merged two pairs of tiles and spawned a 4: the board
\* holds fewer tiles than before and its sum is 4 higher.
C21_Witness ==
    /\ last.op = "move"
    /\ last.ret
    /\ score >= last.before.score + 8
    /\ TileCount(board) < TileCount(last.before.board)
    /\ FaceSum(board) = FaceSum(last.before.board) + 4

\* C22 as stated: a game that is over has a positive score, and so has every
\* score play_game recorded: get_avg_score takes no logarithm of zero.
C22_CompletedGamesScorePositive ==
    /\ game_over => score > 0
    /\ ~HasZero(scores)

====
